---- MODULE Spec2Model ----
(***************************************************************************)
(* Model of src/lib/pdf-utils.ts of hkd-form-app: fillPdfForm (the         *)
(* document composer) and validateImage (the validation unit).             *)
(*                                                                         *)
(* JavaScript strings are sequences of one-character strings, so that      *)
(* String.includes and String.split act on the characters of a data URL.   *)
(* An object with optional keys (FormData, ImageData) is a function whose  *)
(* DOMAIN holds the keys that are present; a missing key is `undefined`.   *)
(***************************************************************************)
EXTENDS Integers, Sequences, FiniteSets, TLC

VARIABLES
    \* ---- fillPdfForm, one entry per call ----
    pc,            \* position of the call in the body of fillPdfForm
    formValues,    \* argument formValues
    images,        \* argument images
    pdfFieldData,  \* local pdfFieldData, as its Object.entries sequence
    idx,           \* position of the second for-loop in that sequence
    pending,       \* the embedPng/embedJpg promise the call is awaiting
    docs,          \* the PDFDocument objects, by document identity
    result,        \* the settled promise of the call
    outcome,       \* what each step of the call did (history)
    trace,         \* steps entered and draws made by the call (history)
    rasterCalls,   \* field names renderTextToImage was invoked for (history)
    embedCalls,    \* embedPng/embedJpg invocations for photo/signature (history)
    warned,        \* console.warn / console.error lines of the call
    faults,        \* number of failures injected into the call
    loadedWhile,   \* whether another call was suspended in an embed when the call loaded (history)
    \* ---- validateImage ----
    vpc, vfile, vtype, verrors, vwarnings, vresult, vurls,
    \* ---- localStorage helpers ----
    storage,       \* localStorage: the keys that are set, with their strings
    loaded,        \* what the last loadFormFromLocalStorage returned
    lastOp,        \* the last of save / clear that ran (history)
    lastSaved,     \* the arguments of the last saveFormToLocalStorage (history)
    ops            \* number of save / clear calls so far

fillVars == <<pc, formValues, images, pdfFieldData, idx, pending, docs, result,
              outcome, trace, rasterCalls, embedCalls, warned, faults, loadedWhile>>
valVars == <<vpc, vfile, vtype, verrors, vwarnings, vresult, vurls>>
stoVars == <<storage, loaded, lastOp, lastSaved, ops>>
vars == <<fillVars, valVars, stoVars>>

----------------------------------------------------------------------------
(* Strings *)

Chars_data == <<"d","a","t","a",":">>
Chars_base64 == <<";","b","a","s","e","6","4",",">>
Chars_image_png == <<"i","m","a","g","e","/","p","n","g">>
Chars_image_jpeg == <<"i","m","a","g","e","/","j","p","e","g">>

\* String.prototype.includes: needle occurs as a contiguous substring of s.
Includes(s, needle) ==
    \E i \in 1..(Len(s) - Len(needle) + 1) :
        SubSeq(s, i, i + Len(needle) - 1) = needle

\* Position of the first occurrence of character ch in s, 0 when absent.
IndexOf(s, ch) ==
    IF \E i \in 1..Len(s) : s[i] = ch
    THEN CHOOSE i \in 1..Len(s) : s[i] = ch /\ \A j \in 1..(i-1) : s[j] # ch
    ELSE 0

StartsWith(s, prefix) ==
    Len(s) >= Len(prefix) /\ SubSeq(s, 1, Len(prefix)) = prefix

\* A base64 data URL "data:<mime>;base64,<payload>".
DataUrl(mime, payload) == Chars_data \o mime \o Chars_base64 \o payload

\* The media type a data URL declares: the text between "data:" and the
\* first ";" (or "," when there is no parameter).
MimeOf(dataUrl) ==
    LET semi == IndexOf(dataUrl, ";")
        comma == IndexOf(dataUrl, ",")
        stop == IF semi # 0 /\ (comma = 0 \/ semi < comma) THEN semi ELSE comma
    IN IF StartsWith(dataUrl, Chars_data) /\ stop > Len(Chars_data)
       THEN SubSeq(dataUrl, Len(Chars_data) + 1, stop - 1)
       ELSE <<>>

\* First bytes of a PNG / JPEG file, in base64 ("iVBO...", "/9j/...").
PngMagic == <<"i","V","B","O">>
JpegMagic == <<"/","9","j","/">>

----------------------------------------------------------------------------
(* Static tables imported from ./form-fields *)

FORM_FIELDS ==
    << [id |-> "name_bn", pdfFieldId |-> "text_3zwog"],
       [id |-> "club",    pdfFieldId |-> "text_unmapped"],
       [id |-> "name_en", pdfFieldId |-> "text_name_en"] >>

FIELD_COORDS ==
    ( "text_3zwog"   :> [x |-> 193, y |-> 584, w |-> 364, h |-> 11] ) @@
    ( "text_name_en" :> [x |-> 193, y |-> 610, w |-> 364, h |-> 11] )

PHOTO_BOX == [x |-> 460, y |-> 650, width |-> 90, height |-> 110]

SIGNATURE_POSITIONS == [student |-> [x |-> 400, y |-> 80, width |-> 120, height |-> 40]]

----------------------------------------------------------------------------
(* Bounds and input sets *)

\* Failures injected into one call when several calls run concurrently.
MaxConcFaults == 1

FieldIds == {FORM_FIELDS[i].id : i \in 1..Len(FORM_FIELDS)}

\* Field texts: the empty string and one non-empty text.
Texts == {<<>>, <<"a">>}

\* Every FormData over the field ids: each key absent, "" or "a".
AllFormValues == UNION {[S -> Texts] : S \in SUBSET FieldIds}

PngPhoto == DataUrl(Chars_image_png, PngMagic \o <<"A","A","A","A">>)
JpegPhoto == DataUrl(Chars_image_jpeg, JpegMagic \o <<"A","A","A","A">>)
\* A JPEG whose base64 text happens to contain the characters "image/png".
JpegPhotoPngText ==
    DataUrl(Chars_image_jpeg, JpegMagic \o Chars_image_png \o <<"A","A","A">>)
\* A string that is no data URL (no comma).
NotADataUrl == <<"x">>

\* An optional value is a sequence of length 0 or 1.
PhotoOptions == {<<>>, << <<>> >>, <<PngPhoto>>, <<JpegPhoto>>,
                 <<JpegPhotoPngText>>, <<NotADataUrl>>}
SignatureOptions == {<<>>, <<PngPhoto>>, <<JpegPhoto>>}

ImageData(photo, signature) ==
    [k \in (IF photo = <<>> THEN {} ELSE {"photo"}) \cup
           (IF signature = <<>> THEN {} ELSE {"signature"}) |->
        IF k = "photo" THEN photo[1] ELSE signature[1]]

AllImages == {ImageData(p, s) : p \in PhotoOptions, s \in SignatureOptions}

\* Inputs of the calls of a concurrent run.
ConcFormValues == { ("name_bn" :> <<"a">>), ("name_en" :> <<"b">>) }
ConcImages == { ImageData(<<PngPhoto>>, <<>>), ImageData(<<>>, <<JpegPhoto>>) }

Concurrent == Cardinality(DOMAIN pc) > 1

----------------------------------------------------------------------------
(* Pure helpers of pdf-utils.ts *)

Base64Alphabet ==
    {"A","B","C","D","E","F","G","H","I","J","K","L","M","N","O","P","Q","R",
     "S","T","U","V","W","X","Y","Z","a","b","c","d","e","f","g","h","i","j",
     "k","l","m","n","o","p","q","r","s","t","u","v","w","x","y","z","0","1",
     "2","3","4","5","6","7","8","9","+","/"}

\* dataUrl.split(",")[1]: the text between the first and the second comma;
\* a sequence of length 0 when there is no comma (undefined).
SplitComma1(dataUrl) ==
    LET first == IndexOf(dataUrl, ",")
        rest == SubSeq(dataUrl, first + 1, Len(dataUrl))
        second == IndexOf(rest, ",")
    IN IF first = 0 THEN <<>>
       ELSE << IF second = 0 THEN rest ELSE SubSeq(rest, 1, second - 1) >>

\* atob throws on a character outside the alphabet and on a length of
\* 4n+1; atob(undefined) is atob("undefined"), 9 characters, which throws.
AtobThrows(part) ==
    \/ part = <<>>
    \/ \E i \in 1..Len(part[1]) : part[1][i] \notin Base64Alphabet
    \/ Len(part[1]) % 4 = 1

DecodeThrows(dataUrl) == AtobThrows(SplitComma1(dataUrl))

\* A byte buffer is written as the base64 text of its bytes.
dataUrlToUint8Array(dataUrl) == SplitComma1(dataUrl)[1]

getImageType(dataUrl) ==
    IF Includes(dataUrl, Chars_image_png) THEN "png" ELSE "jpg"

\* The PNG the canvas holds after fillText(text): four base64 characters
\* per character of text after the PNG header.
RECURSIVE Glyphs(_)
Glyphs(text) ==
    IF text = <<>> THEN <<>>
    ELSE <<text[1], text[1], text[1], text[1]>> \o Glyphs(Tail(text))

\* renderTextToImage, by what the canvas did: no 2D context, a canvas of
\* zero area (toDataURL gives "data:,"), or the rendered PNG.
renderTextToImage(text, canvasOutcome) ==
    CASE canvasOutcome = "unavailable" -> <<>>
      [] canvasOutcome = "blank" -> Chars_data \o <<",">>
      [] OTHER -> DataUrl(Chars_image_png, PngMagic \o Glyphs(text))

\* PngEmbedder.for / JpegEmbedder.for reject bytes of another format.
EmbedAccepts(path, bytes) ==
    StartsWith(bytes, IF path = "png" THEN PngMagic ELSE JpegMagic)

IsFilledNoEmptyCheck(fv, id) == id \in DOMAIN fv

\* value !== undefined && value !== ""
IsFilled(fv, id) == id \in DOMAIN fv /\ fv[id] # <<>>

\* pdfFieldData[name] = value on the entries sequence: an existing key keeps
\* its place, a new key goes last.
SetEntry(entries, name, value) ==
    IF \E i \in 1..Len(entries) : entries[i].name = name
    THEN [i \in 1..Len(entries) |->
            IF entries[i].name = name THEN [name |-> name, value |-> value]
            ELSE entries[i]]
    ELSE Append(entries, [name |-> name, value |-> value])

RECURSIVE BuildFrom(_, _, _)
BuildFrom(fv, i, entries) ==
    IF i > Len(FORM_FIELDS) THEN entries
    ELSE BuildFrom(fv, i + 1,
            IF IsFilled(fv, FORM_FIELDS[i].id)
            THEN SetEntry(entries, FORM_FIELDS[i].pdfFieldId, fv[FORM_FIELDS[i].id])
            ELSE entries)

\* The first for-loop of fillPdfForm.
BuildPdfFieldData(fv) == BuildFrom(fv, 1, <<>>)

----------------------------------------------------------------------------
(* fillPdfForm *)

\* A document right after PDFDocument.load: nothing embedded, nothing drawn.
FreshDoc == [loaded |-> TRUE, images |-> <<>>, draws |-> <<>>, flattened |-> FALSE]
NoDoc == [loaded |-> FALSE, images |-> <<>>, draws |-> <<>>, flattened |-> FALSE]

DocOfShared(c) == 1

\* The document a call works on: the pdfDoc local of that call.
DocOf(c) == c

\* pdfDoc.save(): the bytes of the document as it is at that moment.
Serialize(doc) ==
    [images |-> doc.images, page1 |-> doc.draws, flattened |-> doc.flattened]

NextStepFlattenLast(step) ==
    CASE step = "fetch"     -> "load"
      [] step = "load"      -> "fields"
      [] step = "fields"    -> "photo"
      [] step = "photo"     -> "signature"
      [] step = "signature" -> "flatten"
      [] step = "flatten"   -> "save"
      [] OTHER              -> "done"

\* The statement order of the body of fillPdfForm.
NextStep(step) ==
    CASE step = "fetch"     -> "load"
      [] step = "load"      -> "fields"
      [] step = "fields"    -> "flatten"
      [] step = "flatten"   -> "photo"
      [] step = "photo"     -> "signature"
      [] step = "signature" -> "save"
      [] OTHER              -> "done"

\* Where a call that awaits embedPng/embedJpg in a step is suspended.
AwaitOf(step) ==
    CASE step = "fields" -> "fieldAwait"
      [] step = "photo"  -> "photoAwait"
      [] OTHER           -> "signatureAwait"

\* The loop over Object.entries(pdfFieldData): next entry, or fall through.
LoopOrExit(entries, i) ==
    IF i <= Len(entries) THEN "fields" ELSE NextStep("fields")

BreakAfterSkip(entries, i) == NextStep("fields")

\* `continue`: the loop goes on with the entry after entry i.
ContinueAfterSkip(entries, i) == LoopOrExit(entries, i + 1)

\* Whether the environment may make one more step of call c fail.
CanFail(c) == ~Concurrent \/ faults[c] < MaxConcFaults

Set(f, c, v) == [f EXCEPT ![c] = v]
Note(c, key, what) == Set(outcome, c, (key :> what) @@ outcome[c])
Log(c, events) == Set(trace, c, trace[c] \o events)
Failed(c, failed) == Set(faults, c, faults[c] + (IF failed THEN 1 ELSE 0))

PropagatesFieldErrors(what) == what \in {"raster_throw", "embed_throw", "draw_throw"}

\* Whether an exception of a per-field, flatten, photo or signature step
\* leaves fillPdfForm: never, each sits in its own try/catch.
Propagates(what) == FALSE

\* A thrown exception that is not caught rejects the promise of the call.
Reject(c, step) ==
    /\ pc' = Set(pc, c, "rejected")
    /\ result' = Set(result, c, <<[status |-> "rejected", at |-> step]>>)

\* fillPdfForm(formValues, images) is called.
Start(c) ==
    /\ pc[c] = "idle"
    /\ \E fv \in (IF Concurrent THEN ConcFormValues ELSE AllFormValues),
          im \in (IF Concurrent THEN ConcImages ELSE AllImages) :
        /\ formValues' = Set(formValues, c, fv)
        /\ images' = Set(images, c, im)
    /\ pc' = Set(pc, c, "fetch")
    /\ UNCHANGED <<pdfFieldData, idx, pending, docs, result, outcome, trace,
                   rasterCalls, embedCalls, warned, faults, loadedWhile, valVars, stoVars>>

\* await fetch(...); await response.arrayBuffer()
Fetch(c) ==
    /\ pc[c] = "fetch"
    /\ \E ok \in BOOLEAN :
        /\ ok \/ CanFail(c)
        /\ outcome' = Note(c, "fetch", IF ok THEN "ok" ELSE "fail")
        /\ faults' = Failed(c, ~ok)
        /\ IF ok
           THEN pc' = Set(pc, c, NextStep("fetch")) /\ UNCHANGED result
           ELSE Reject(c, "fetch")
    /\ UNCHANGED <<formValues, images, pdfFieldData, idx, pending, docs, trace,
                   rasterCalls, embedCalls, warned, loadedWhile, valVars, stoVars>>

\* await PDFDocument.load(pdfBytes), then getForm, getPages and the first
\* for-loop, which builds pdfFieldData.
Load(c) ==
    /\ pc[c] = "load"
    /\ \E ok \in BOOLEAN :
        /\ ok \/ CanFail(c)
        /\ outcome' = Note(c, "load", IF ok THEN "ok" ELSE "fail")
        /\ faults' = Failed(c, ~ok)
        /\ trace' = Log(c, IF ok THEN <<"Load", "FillTextFields">> ELSE <<"Load">>)
        /\ IF ok
           THEN /\ docs' = Set(docs, DocOf(c), FreshDoc)
                /\ pdfFieldData' = Set(pdfFieldData, c, BuildPdfFieldData(formValues[c]))
                /\ idx' = Set(idx, c, 1)
                /\ pc' = Set(pc, c, LoopOrExit(BuildPdfFieldData(formValues[c]), 1))
                /\ UNCHANGED result
           ELSE /\ Reject(c, "load")
                /\ UNCHANGED <<docs, pdfFieldData, idx>>
    /\ loadedWhile' = Set(loadedWhile, c,
           \E d \in DOMAIN pc \ {c} : pc[d] \in {"fieldAwait", "photoAwait", "signatureAwait"})
    /\ UNCHANGED <<formValues, images, pending, rasterCalls, embedCalls, warned,
                   valVars, stoVars>>

\* One iteration of the second for-loop up to `await pdfDoc.embedPng`.
FieldBegin(c) ==
    /\ pc[c] = "fields"
    /\ idx[c] <= Len(pdfFieldData[c])
    /\ LET entry == pdfFieldData[c][idx[c]]
           continue == /\ idx' = Set(idx, c, idx[c] + 1)
                       /\ pc' = Set(pc, c, LoopOrExit(pdfFieldData[c], idx[c] + 1))
                       /\ UNCHANGED pending
       IN IF entry.name \notin DOMAIN FIELD_COORDS
          THEN \* if (!coords) continue;
               /\ idx' = Set(idx, c, idx[c] + 1)
               /\ pc' = Set(pc, c, ContinueAfterSkip(pdfFieldData[c], idx[c]))
               /\ UNCHANGED pending
               /\ outcome' = Note(c, entry.name, "nocoords")
               /\ UNCHANGED <<result, rasterCalls, warned, faults>>
          ELSE \E canvas \in {"ok", "blank", "unavailable", "raster_throw"} :
               LET pngDataUrl == renderTextToImage(entry.value, canvas) IN
               /\ canvas = "ok" \/ CanFail(c)
               /\ rasterCalls' = Set(rasterCalls, c, Append(rasterCalls[c], entry.name))
               /\ faults' = Failed(c, canvas # "ok")
               /\ CASE canvas = "raster_throw" /\ Propagates("raster_throw") ->
                        /\ Reject(c, "fields")
                        /\ outcome' = Note(c, entry.name, "raster_throw")
                        /\ UNCHANGED <<idx, pending, warned>>
                    [] canvas = "raster_throw" /\ ~Propagates("raster_throw") ->
                        /\ continue
                        /\ outcome' = Note(c, entry.name, "raster_throw")
                        /\ warned' = Set(warned, c, Append(warned[c],
                                         [level |-> "warn", about |-> entry.name]))
                        /\ UNCHANGED result
                    [] canvas # "raster_throw" /\ pngDataUrl = <<>> ->
                        \* if (pngDataUrl) is false: nothing embedded, nothing logged
                        /\ continue
                        /\ outcome' = Note(c, entry.name, "unavailable")
                        /\ UNCHANGED <<result, warned>>
                    [] canvas # "raster_throw" /\ pngDataUrl # <<>>
                         /\ DecodeThrows(pngDataUrl) ->
                        /\ continue
                        /\ outcome' = Note(c, entry.name, "decode_throw")
                        /\ warned' = Set(warned, c, Append(warned[c],
                                         [level |-> "warn", about |-> entry.name]))
                        /\ UNCHANGED result
                    [] OTHER ->
                        /\ pending' = Set(pending, c,
                               <<[path |-> "png",
                                  bytes |-> dataUrlToUint8Array(pngDataUrl)]>>)
                        /\ pc' = Set(pc, c, AwaitOf("fields"))
                        /\ UNCHANGED <<idx, result, outcome, warned>>
    /\ UNCHANGED <<formValues, images, pdfFieldData, docs, trace, embedCalls, loadedWhile, valVars, stoVars>>

\* A throw inside one of the try blocks: the catch logs it (the catch of
\* flatten logs nothing) and the call goes on at nextPc.
Catch(c, step, about, what, nextPc) ==
    /\ outcome' = Note(c, about, what)
    /\ IF Propagates(what)
       THEN Reject(c, step) /\ UNCHANGED warned
       ELSE /\ pc' = Set(pc, c, nextPc)
            /\ warned' = Set(warned, c,
                  IF step = "flatten" THEN warned[c]
                  ELSE Append(warned[c],
                         [level |-> IF step = "fields" THEN "warn" ELSE "error",
                          about |-> about]))
            /\ UNCHANGED result

\* What the awaited embed and the drawImage after it may do with the
\* bytes: embedding bytes of another format always throws.
ResumeAllowed(c, eo) ==
    LET p == pending[c][1] IN
    CASE eo = "ok"          -> EmbedAccepts(p.path, p.bytes)
      [] eo = "draw_throw"  -> EmbedAccepts(p.path, p.bytes) /\ CanFail(c)
      [] OTHER              -> ~EmbedAccepts(p.path, p.bytes) \/ CanFail(c)

DrawnSwapped(doc, eo, bytes, x, y, width, height) ==
    CASE eo = "embed_throw" -> doc
      [] eo = "draw_throw"  -> [doc EXCEPT !.images = Append(@, bytes)]
      [] OTHER -> [doc EXCEPT !.images = Append(@, bytes),
                              !.draws = Append(@, [image |-> bytes, x |-> y, y |-> x,
                                                   width |-> width, height |-> height])]

\* The document after the embed (and the draw) of the pending image.
Drawn(doc, eo, bytes, x, y, width, height) ==
    CASE eo = "embed_throw" -> doc
      [] eo = "draw_throw"  -> [doc EXCEPT !.images = Append(@, bytes)]
      [] OTHER -> [doc EXCEPT !.images = Append(@, bytes),
                              !.draws = Append(@, [image |-> bytes, x |-> x, y |-> y,
                                                   width |-> width, height |-> height])]

\* The rest of the iteration: embedPng settles, page.drawImage at coords.
FieldResume(c) ==
    /\ pc[c] = "fieldAwait"
    /\ LET entry == pdfFieldData[c][idx[c]]
           coords == FIELD_COORDS[entry.name]
           p == pending[c][1]
       IN \E eo \in {"ok", "embed_throw", "draw_throw"} :
           /\ ResumeAllowed(c, eo)
           /\ faults' = Failed(c, eo # "ok")
           /\ pending' = Set(pending, c, <<>>)
           /\ idx' = Set(idx, c, idx[c] + 1)
           /\ docs' = Set(docs, DocOf(c),
                  Drawn(docs[DocOf(c)], eo, p.bytes, coords.x, coords.y, coords.w, coords.h))
           /\ trace' = Log(c, IF eo = "ok" THEN <<"DrawText">> ELSE <<>>)
           /\ IF eo = "ok"
              THEN /\ outcome' = Note(c, entry.name, "ok")
                   /\ pc' = Set(pc, c, LoopOrExit(pdfFieldData[c], idx[c] + 1))
                   /\ UNCHANGED <<result, warned>>
              ELSE Catch(c, "fields", entry.name, eo,
                         LoopOrExit(pdfFieldData[c], idx[c] + 1))
    /\ UNCHANGED <<formValues, images, pdfFieldData, rasterCalls, embedCalls, loadedWhile, valVars, stoVars>>

\* try { form.flatten() } catch {}
Flatten(c) ==
    /\ pc[c] = "flatten"
    /\ \E ok \in BOOLEAN :
        /\ ok \/ CanFail(c)
        /\ faults' = Failed(c, ~ok)
        /\ trace' = Log(c, <<"Flatten">>)
        /\ IF ok
           THEN /\ docs' = Set(docs, DocOf(c), [docs[DocOf(c)] EXCEPT !.flattened = TRUE])
                /\ outcome' = Note(c, "flatten", "ok")
                /\ pc' = Set(pc, c, NextStep("flatten"))
                /\ UNCHANGED <<result, warned>>
           ELSE /\ Catch(c, "flatten", "flatten", "flatten_throw", NextStep("flatten"))
                /\ UNCHANGED docs
    /\ UNCHANGED <<formValues, images, pdfFieldData, idx, pending, rasterCalls,
                   embedCalls, loadedWhile, valVars, stoVars>>

StepName(asset) == IF asset = "photo" THEN "EmbedPhoto" ELSE "EmbedSignature"
DrawName(asset) == IF asset = "photo" THEN "DrawPhoto" ELSE "DrawSignature"
RectOf(asset) == IF asset = "photo" THEN PHOTO_BOX ELSE SIGNATURE_POSITIONS.student

\* if (images.photo) / if (images.signature): undefined and "" are falsy.
Supplied(im, asset) == asset \in DOMAIN im /\ im[asset] # <<>>

\* The photo block (asset = "photo") or the signature block up to the
\* await of embedPng / embedJpg.
AssetBegin(c, asset) ==
    /\ pc[c] = asset
    /\ trace' = Log(c, <<StepName(asset)>>)
    /\ IF ~Supplied(images[c], asset)
       THEN /\ outcome' = Note(c, asset, "absent")
            /\ pc' = Set(pc, c, NextStep(asset))
            /\ UNCHANGED <<pending, result, warned, embedCalls>>
       ELSE IF DecodeThrows(images[c][asset])
       THEN /\ Catch(c, asset, asset, "decode_throw", NextStep(asset))
            /\ UNCHANGED <<pending, embedCalls>>
       ELSE /\ pending' = Set(pending, c,
                   <<[path |-> getImageType(images[c][asset]),
                      bytes |-> dataUrlToUint8Array(images[c][asset])]>>)
            /\ embedCalls' = Set(embedCalls, c, Append(embedCalls[c],
                   [asset |-> asset, path |-> getImageType(images[c][asset]),
                    dataUrl |-> images[c][asset]]))
            /\ pc' = Set(pc, c, AwaitOf(asset))
            /\ UNCHANGED <<result, outcome, warned>>
    /\ UNCHANGED <<formValues, images, pdfFieldData, idx, docs, rasterCalls, faults,
                   loadedWhile, valVars, stoVars>>

\* The rest of the photo or signature block: the embed settles, drawImage.
AssetResume(c, asset) ==
    /\ pc[c] = AwaitOf(asset)
    /\ LET p == pending[c][1]
           r == RectOf(asset)
       IN \E eo \in {"ok", "embed_throw", "draw_throw"} :
           /\ ResumeAllowed(c, eo)
           /\ faults' = Failed(c, eo # "ok")
           /\ pending' = Set(pending, c, <<>>)
           /\ docs' = Set(docs, DocOf(c),
                  Drawn(docs[DocOf(c)], eo, p.bytes, r.x, r.y, r.width, r.height))
           /\ trace' = Log(c, IF eo = "ok" THEN <<DrawName(asset)>> ELSE <<>>)
           /\ IF eo = "ok"
              THEN /\ outcome' = Note(c, asset, "ok")
                   /\ pc' = Set(pc, c, NextStep(asset))
                   /\ UNCHANGED <<result, warned>>
              ELSE Catch(c, asset, asset, eo, NextStep(asset))
    /\ UNCHANGED <<formValues, images, pdfFieldData, idx, rasterCalls, embedCalls,
                   loadedWhile, valVars, stoVars>>

\* const filledPdfBytes = await pdfDoc.save(); return filledPdfBytes;
Save(c) ==
    /\ pc[c] = "save"
    /\ \E ok \in BOOLEAN :
        /\ ok \/ CanFail(c)
        /\ faults' = Failed(c, ~ok)
        /\ outcome' = Note(c, "save", IF ok THEN "ok" ELSE "fail")
        /\ trace' = Log(c, <<"Serialize">>)
        /\ IF ok
           THEN /\ pc' = Set(pc, c, NextStep("save"))
                /\ result' = Set(result, c,
                      <<[status |-> "resolved", bytes |-> Serialize(docs[DocOf(c)])]>>)
           ELSE Reject(c, "save")
    /\ UNCHANGED <<formValues, images, pdfFieldData, idx, pending, docs, rasterCalls,
                   embedCalls, warned, loadedWhile, valVars, stoVars>>

PhotoBegin(c) == AssetBegin(c, "photo")
PhotoResume(c) == AssetResume(c, "photo")
SignatureBegin(c) == AssetBegin(c, "signature")
SignatureResume(c) == AssetResume(c, "signature")

----------------------------------------------------------------------------
(* validateImage *)

MB == 1024 * 1024

\* const constraints = type === "photo" ? {...} : {...}; the aspect-ratio
\* limits 0.6, 1.0, 0.5 and 8.0 are written as fractions n/d.
Constraints(type) ==
    IF type = "photo"
    THEN [maxSizeBytes |-> 5 * MB,
          acceptedTypes |-> {"image/jpeg", "image/png", "image/jpg"},
          minWidth |-> 150, minHeight |-> 180, maxWidth |-> 2000, maxHeight |-> 2400,
          aspectRatioMin |-> [n |-> 6, d |-> 10], aspectRatioMax |-> [n |-> 1, d |-> 1]]
    ELSE [maxSizeBytes |-> 2 * MB,
          acceptedTypes |-> {"image/jpeg", "image/png", "image/jpg"},
          minWidth |-> 50, minHeight |-> 20, maxWidth |-> 2000, maxHeight |-> 1000,
          aspectRatioMin |-> [n |-> 5, d |-> 10], aspectRatioMax |-> [n |-> 8, d |-> 1]]

TooSmallBoth(width, height, k) == width < k.minWidth /\ height < k.minHeight

\* width < constraints.minWidth || height < constraints.minHeight
TooSmall(width, height, k) == width < k.minWidth \/ height < k.minHeight

\* width > constraints.maxWidth || height > constraints.maxHeight
TooLarge(width, height, k) == width > k.maxWidth \/ height > k.maxHeight

\* aspectRatio = width / height is Infinity for height 0 and width > 0, NaN
\* for 0 / 0; every comparison with NaN is false.
AspectBelow(width, height, r) == height > 0 /\ width * r.d < r.n * height
AspectAbove(width, height, r) ==
    \/ height > 0 /\ width * r.d > r.n * height
    \/ height = 0 /\ width > 0

\* aspectRatio < aspectRatioMin || aspectRatio > aspectRatioMax
AspectUnusual(width, height, k) ==
    AspectBelow(width, height, k.aspectRatioMin) \/ AspectAbove(width, height, k.aspectRatioMax)

IsValidNoWarnings(errors, warnings) == errors = <<>> /\ warnings = <<>>

\* valid: errors.length === 0
IsValid(errors, warnings) == errors = <<>>

DecodeFailedUnreported(errors, warnings) ==
    [valid |-> errors = <<>>, errors |-> errors, warnings |-> warnings,
     dimensions |-> <<>>]

\* img.onerror: errors.push("Could not read image file..."), then
\* resolve({ valid: false, errors, warnings })
DecodeFailed(errors, warnings) ==
    [valid |-> FALSE, errors |-> Append(errors, "decode"), warnings |-> warnings,
     dimensions |-> <<>>]

SeqIf(cond, v) == IF cond THEN <<v>> ELSE <<>>

\* The files offered to validateImage.
FileTypes == {"image/jpeg", "image/png", "image/jpg", "image/gif", ""}
FileSizes == {1024, 2 * MB, 2 * MB + 1, 5 * MB, 5 * MB + 1, 6 * MB}
Widths == {0, 49, 50, 100, 149, 150, 540, 2000, 2001}
Heights == {0, 19, 20, 100, 179, 180, 1000, 1001, 2400, 2401}

Files ==
    [type : FileTypes, size : FileSizes, decodes : {TRUE}, width : Widths, height : Heights]
    \cup [type : FileTypes, size : FileSizes, decodes : {FALSE}, width : {0}, height : {0}]

\* const objectUrl = URL.createObjectURL(file)
CreateEvents(url) == <<[ev |-> "create", url |-> url]>>

\* img.onload: URL.revokeObjectURL(objectUrl) first, resolve(...) last.
OnLoadEvents(url) == <<[ev |-> "revoke", url |-> url], [ev |-> "resolve", url |-> url]>>

OnErrorEventsNoRevoke(url) == <<[ev |-> "resolve", url |-> url]>>

\* img.onerror: URL.revokeObjectURL(objectUrl) first, resolve(...) last.
OnErrorEvents(url) == <<[ev |-> "revoke", url |-> url], [ev |-> "resolve", url |-> url]>>

\* The object URLs created and revoked so far, after these events.
CountEvents(urls, events) ==
    [created |-> urls.created
                 + Cardinality({i \in 1..Len(events) : events[i].ev = "create"}),
     revoked |-> urls.revoked
                 + Cardinality({i \in 1..Len(events) : events[i].ev = "revoke"}),
     log |-> urls.log \o events]

\* validateImage(file, type): the executor of the promise, up to img.src.
Validate ==
    /\ vpc = "idle"
    /\ \E file \in Files, type \in {"photo", "signature"} :
        LET k == Constraints(type) IN
        /\ vfile' = <<file>>
        /\ vtype' = type
        /\ verrors' = SeqIf(file.type \notin k.acceptedTypes, "type")
                      \o SeqIf(file.size > k.maxSizeBytes, "size")
    /\ vwarnings' = <<>>
    /\ vurls' = CountEvents(vurls, CreateEvents(vurls.created + 1))
    /\ vpc' = "decoding"
    /\ UNCHANGED <<vresult, fillVars, stoVars>>

\* img.onload
OnLoad ==
    /\ vpc = "decoding"
    /\ vfile[1].decodes
    /\ LET k == Constraints(vtype)
           width == vfile[1].width
           height == vfile[1].height
           errors == verrors \o SeqIf(TooSmall(width, height, k), "small")
           warnings == vwarnings \o SeqIf(TooLarge(width, height, k), "large")
                                 \o SeqIf(AspectUnusual(width, height, k), "aspect")
       IN /\ verrors' = errors
          /\ vwarnings' = warnings
          /\ vresult' = <<[valid |-> IsValid(errors, warnings), errors |-> errors,
                           warnings |-> warnings,
                           dimensions |-> <<[width |-> width, height |-> height]>>]>>
    /\ vurls' = CountEvents(vurls, OnLoadEvents(vurls.created))
    /\ vpc' = "resolved"
    /\ UNCHANGED <<vfile, vtype, fillVars, stoVars>>

\* img.onerror
OnError ==
    /\ vpc = "decoding"
    /\ ~vfile[1].decodes
    /\ verrors' = DecodeFailed(verrors, vwarnings).errors
    /\ vresult' = <<DecodeFailed(verrors, vwarnings)>>
    /\ vurls' = CountEvents(vurls, OnErrorEvents(vurls.created))
    /\ vpc' = "resolved"
    /\ UNCHANGED <<vfile, vtype, vwarnings, fillVars, stoVars>>

InitValidate ==
    /\ vpc = "idle"
    /\ vfile = <<>>
    /\ vtype = "photo"
    /\ verrors = <<>>
    /\ vwarnings = <<>>
    /\ vresult = <<>>
    /\ vurls = [created |-> 0, revoked |-> 0, log |-> <<>>]

----------------------------------------------------------------------------
(* saveFormToLocalStorage, loadFormFromLocalStorage, clearFormLocalStorage *)

\* Calls of save / clear in one run.
MaxOps == 3

KEY_FORM == "hstu_karate_form_data"
KEY_PHOTO == "hstu_karate_photo"
KEY_SIGNATURE == "hstu_karate_signature"

\* The arguments offered to saveFormToLocalStorage.
StoFormData ==
    { [id \in {} |-> <<>>],
      ("name_bn" :> <<"a">>),
      ("name_bn" :> <<"b">>) @@ ("name_en" :> <<>>) }
StoImages ==
    {ImageData(p, s) : p \in {<<>>, << <<>> >>, <<PngPhoto>>, <<JpegPhoto>>},
                       s \in {<<>>, <<PngPhoto>>}}

\* localStorage.setItem / removeItem / getItem (null is the empty sequence).
SetItem(st, key, value) == (key :> value) @@ st
RemoveItem(st, key) == [k \in DOMAIN st \ {key} |-> st[k]]
GetItem(st, key) == IF key \in DOMAIN st THEN <<st[key]>> ELSE <<>>

\* JSON.stringify of a Record<string, string>: "{", the key/value pairs in
\* the order of the keys, "}".
RECURSIVE StringifyFrom(_, _)
StringifyFrom(formData, i) ==
    IF i > Len(FORM_FIELDS) THEN <<>>
    ELSE (IF FORM_FIELDS[i].id \in DOMAIN formData
          THEN <<[k |-> FORM_FIELDS[i].id, v |-> formData[FORM_FIELDS[i].id]]>>
          ELSE <<>>) \o StringifyFrom(formData, i + 1)

JsonStringify(formData) ==
    <<[k |-> "{", v |-> <<>>]>> \o StringifyFrom(formData, 1) \o <<[k |-> "}", v |-> <<>>]>>

\* JSON.parse: the object of the pairs between the braces.
JsonParse(text) ==
    LET inner == SubSeq(text, 2, Len(text) - 1) IN
    [key \in {inner[i].k : i \in 1..Len(inner)} |->
        inner[CHOOSE i \in 1..Len(inner) :
                 inner[i].k = key /\ \A j \in (i+1)..Len(inner) : inner[j].k # key].v]

\* A string or null is truthy when it is a non-empty string.
Truthy(item) == item # <<>> /\ item[1] # <<>>

\* if (images.photo) localStorage.setItem(key, images.photo): a key whose
\* image is not supplied is left as it is.
SetIfSupplied(st, key, im, asset) ==
    IF Supplied(im, asset) THEN SetItem(st, key, im[asset]) ELSE st

\* saveFormToLocalStorage(formData, images), every setItem succeeding.
SaveForm ==
    /\ ops < MaxOps
    /\ \E formData \in StoFormData, im \in StoImages :
        /\ storage' = SetIfSupplied(
                         SetIfSupplied(
                           SetItem(storage, KEY_FORM, JsonStringify(formData)),
                           KEY_PHOTO, im, "photo"),
                         KEY_SIGNATURE, im, "signature")
        /\ lastSaved' = <<[formData |-> formData, images |-> im]>>
    /\ lastOp' = "save"
    /\ loaded' = <<>>
    /\ ops' = ops + 1
    /\ UNCHANGED <<fillVars, valVars>>

\* clearFormLocalStorage()
ClearForm ==
    /\ ops < MaxOps
    /\ storage' = RemoveItem(RemoveItem(RemoveItem(storage, KEY_FORM), KEY_PHOTO),
                             KEY_SIGNATURE)
    /\ lastOp' = "clear"
    /\ loaded' = <<>>
    /\ ops' = ops + 1
    /\ UNCHANGED <<lastSaved, fillVars, valVars>>

\* loadFormFromLocalStorage()
LoadForm ==
    /\ loaded = <<>>
    /\ LET formDataStr == GetItem(storage, KEY_FORM)
           photo == GetItem(storage, KEY_PHOTO)
           signature == GetItem(storage, KEY_SIGNATURE)
       IN loaded' =
            <<[formData |-> IF Truthy(formDataStr) THEN JsonParse(formDataStr[1])
                            ELSE [id \in {} |-> <<>>],
               images |-> ImageData(IF Truthy(photo) THEN photo ELSE <<>>,
                                    IF Truthy(signature) THEN signature ELSE <<>>)]>>
    /\ UNCHANGED <<storage, lastOp, lastSaved, ops, fillVars, valVars>>

InitStorage ==
    /\ storage = [k \in {} |-> <<>>]
    /\ loaded = <<>>
    /\ lastOp = "none"
    /\ lastSaved = <<>>
    /\ ops = 0

----------------------------------------------------------------------------
(* Specifications *)

InitFill(calls) ==
    /\ pc = [c \in calls |-> "idle"]
    /\ formValues = [c \in calls |-> <<>>]
    /\ images = [c \in calls |-> <<>>]
    /\ pdfFieldData = [c \in calls |-> <<>>]
    /\ idx = [c \in calls |-> 1]
    /\ pending = [c \in calls |-> <<>>]
    /\ docs = [c \in calls |-> NoDoc]
    /\ result = [c \in calls |-> <<>>]
    /\ outcome = [c \in calls |-> <<>>]
    /\ trace = [c \in calls |-> <<>>]
    /\ rasterCalls = [c \in calls |-> <<>>]
    /\ embedCalls = [c \in calls |-> <<>>]
    /\ warned = [c \in calls |-> <<>>]
    /\ faults = [c \in calls |-> 0]
    /\ loadedWhile = [c \in calls |-> FALSE]

Init == InitFill({1}) /\ InitValidate /\ InitStorage

InitConc == InitFill({1, 2}) /\ InitValidate /\ InitStorage

Next ==
    \/ \E c \in DOMAIN pc : Start(c)
    \/ \E c \in DOMAIN pc : Fetch(c)
    \/ \E c \in DOMAIN pc : Load(c)
    \/ \E c \in DOMAIN pc : FieldBegin(c)
    \/ \E c \in DOMAIN pc : FieldResume(c)
    \/ \E c \in DOMAIN pc : Flatten(c)
    \/ \E c \in DOMAIN pc : PhotoBegin(c)
    \/ \E c \in DOMAIN pc : PhotoResume(c)
    \/ \E c \in DOMAIN pc : SignatureBegin(c)
    \/ \E c \in DOMAIN pc : SignatureResume(c)
    \/ \E c \in DOMAIN pc : Save(c)

\* One call of fillPdfForm.
Spec == Init /\ [][Next]_vars

\* Two calls of fillPdfForm whose steps interleave at the awaits.
SpecConc == InitConc /\ [][Next]_vars

NextValidate == Validate \/ OnLoad \/ OnError

\* One call of validateImage.
SpecValidate == Init /\ [][NextValidate]_vars

NextStorage == SaveForm \/ ClearForm \/ LoadForm

\* Saves, clears and loads of the form in localStorage, in any order.
SpecStorage == Init /\ [][NextStorage]_vars

----------------------------------------------------------------------------
(* Properties of fillPdfForm *)

Terminal(c) == pc[c] \in {"done", "rejected"}
LoadedOk(c) == "load" \in DOMAIN outcome[c] /\ outcome[c]["load"] = "ok"
Did(c, key) == key \in DOMAIN outcome[c]
Was(c, key, what) == key \in DOMAIN outcome[c] /\ outcome[c][key] = what
Tolerated == {"raster_throw", "unavailable", "decode_throw", "embed_throw",
              "draw_throw", "flatten_throw"}

\* C1: whatever fails in the per-field steps, in the flatten, in the photo
\* and in the signature, a call that loaded its template goes on to
\* pdfDoc.save() and resolves with the saved bytes; the promise rejects only
\* at the template fetch/load or at the save, and a call that is not settled
\* can always take its next step.
C1_OnlyLoadAndSaveAreFatal ==
    \A c \in DOMAIN pc :
        /\ pc[c] = "rejected" =>
              /\ result[c][1].status = "rejected"
              /\ result[c][1].at \in {"fetch", "load", "save"}
              /\ Was(c, result[c][1].at, "fail")
        /\ pc[c] = "done" =>
              /\ result[c][1].status = "resolved"
              /\ result[c][1].bytes = Serialize(docs[DocOf(c)])
              /\ Was(c, "save", "ok")
        /\ (LoadedOk(c) /\ Terminal(c)) => Did(c, "save")
        /\ (pc[c] # "idle" /\ ~Terminal(c)) => ENABLED Next

\* C1 witness: a call resolved although a field, the flatten, the photo and
\* the signature each failed.
C1_Witness ==
    /\ pc[1] = "done"
    /\ result[1][1].status = "resolved"
    /\ Was(1, "text_3zwog", "embed_throw")
    /\ Was(1, "text_name_en", "raster_throw")
    /\ Was(1, "flatten", "flatten_throw")
    /\ Was(1, "photo", "decode_throw")
    /\ Was(1, "signature", "draw_throw")

Rank(event) ==
    CASE event = "Load" -> 1
      [] event \in {"FillTextFields", "DrawText"} -> 2
      [] event = "Flatten" -> 3
      [] event \in {"EmbedPhoto", "DrawPhoto"} -> 4
      [] event \in {"EmbedSignature", "DrawSignature"} -> 5
      [] OTHER -> 6

PcRank(step) ==
    CASE step \in {"idle", "fetch"} -> 0
      [] step = "load" -> 0
      [] step \in {"fields", "fieldAwait"} -> 2
      [] step = "flatten" -> 2
      [] step \in {"photo"} -> 3
      [] step \in {"photoAwait"} -> 4
      [] step \in {"signature"} -> 4
      [] step \in {"signatureAwait"} -> 5
      [] step = "save" -> 5
      [] OTHER -> 6

\* C2: in one call the steps are entered in the order Load, Fill-Text-Fields,
\* Flatten, Embed-Photo, Embed-Signature, Serialize: every text draw comes
\* before the flatten, the flatten before the photo draw, the photo draw
\* before the signature draw, the save last; no step is entered twice and
\* the call never stands before a step it has already taken.
C2_FixedStepOrder ==
    \A c \in DOMAIN pc :
        /\ \A i, j \in 1..Len(trace[c]) :
              i < j => /\ Rank(trace[c][i]) <= Rank(trace[c][j])
                       /\ trace[c][i] = trace[c][j] => trace[c][i] = "DrawText"
        /\ \A i \in 1..Len(trace[c]) : Rank(trace[c][i]) <= PcRank(pc[c]) \/ pc[c] = "rejected"
        /\ pc[c] = "done" =>
              \A e \in {"Load", "FillTextFields", "Flatten", "EmbedPhoto",
                        "EmbedSignature", "Serialize"} :
                  \E i \in 1..Len(trace[c]) : trace[c][i] = e

\* C2 witness: a finished call that drew a text, flattened, drew the photo
\* and the signature and saved, with a failed field in between.
C2_Witness ==
    /\ pc[1] = "done"
    /\ trace[1] = <<"Load", "FillTextFields", "DrawText", "Flatten", "EmbedPhoto",
                    "DrawPhoto", "EmbedSignature", "DrawSignature", "Serialize">>
    /\ Was(1, "text_name_en", "embed_throw")

\* The draws of a page at a rectangle.
DrawsAt(page, x, y, w, h) ==
    {k \in 1..Len(page) : /\ page[k].x = x /\ page[k].y = y
                          /\ page[k].width = w /\ page[k].height = h}

\* The fields the claim C3 is about: value non-empty, FieldRect present.
Drawable(fv) ==
    {i \in 1..Len(FORM_FIELDS) :
        /\ FORM_FIELDS[i].id \in DOMAIN fv
        /\ fv[FORM_FIELDS[i].id] # <<>>
        /\ FORM_FIELDS[i].pdfFieldId \in DOMAIN FIELD_COORDS}

\* C3 as stated: for every field with a non-empty value and a FieldRect the
\* returned document holds exactly one raster drawn at that FieldRect.
C3_Original ==
    \A c \in DOMAIN pc :
        pc[c] = "done" =>
            \A i \in Drawable(formValues[c]) :
                LET r == FIELD_COORDS[FORM_FIELDS[i].pdfFieldId] IN
                Cardinality(DrawsAt(result[c][1].bytes.page1, r.x, r.y, r.w, r.h)) = 1

\* C3 amended: for every field with a non-empty value and a FieldRect the
\* returned document holds exactly one raster drawn at that FieldRect, the
\* rendering of the field's value, when the rasterizer, embedPng and
\* drawImage all succeeded for the field, and no raster at that FieldRect
\* when one of them failed.
C3_OneRasterPerRenderedField ==
    \A c \in DOMAIN pc :
        pc[c] = "done" =>
            \A i \in Drawable(formValues[c]) :
                LET name == FORM_FIELDS[i].pdfFieldId
                    r == FIELD_COORDS[name]
                    page == result[c][1].bytes.page1
                    at == DrawsAt(page, r.x, r.y, r.w, r.h)
                IN IF Was(c, name, "ok")
                   THEN /\ Cardinality(at) = 1
                        /\ \A k \in at :
                              page[k].image = PngMagic \o Glyphs(formValues[c][FORM_FIELDS[i].id])
                   ELSE /\ outcome[c][name] \in Tolerated
                        /\ at = {}

\* C3 witness: a returned document with one field drawn and one field whose
\* rasterizer was unavailable.
C3_Witness ==
    /\ pc[1] = "done"
    /\ Drawable(formValues[1]) = {1, 3}
    /\ Was(1, "text_3zwog", "ok")
    /\ Was(1, "text_name_en", "unavailable")
    /\ Len(result[1][1].bytes.page1) = 1

Unmapped(c) ==
    {k \in 1..Len(pdfFieldData[c]) : pdfFieldData[c][k].name \notin DOMAIN FIELD_COORDS}

InSeq(seq, v) == \E i \in 1..Len(seq) : seq[i] = v

\* C4: a field whose pdfFieldId has no entry in the coordinate table is
\* skipped: the rasterizer is never invoked for it, nothing is logged or
\* thrown for it, and the call still handles every other field, the flatten,
\* the photo, the signature and the save.
C4_MissingCoordsSkipped ==
    \A c \in DOMAIN pc :
        LoadedOk(c) =>
            \A k \in Unmapped(c) :
                LET name == pdfFieldData[c][k].name IN
                /\ ~InSeq(rasterCalls[c], name)
                /\ \A w \in 1..Len(warned[c]) : warned[c][w].about # name
                /\ Did(c, name) => outcome[c][name] = "nocoords"
                /\ pc[c] = "rejected" => result[c][1].at = "save"
                /\ Terminal(c) =>
                      /\ \A j \in 1..Len(pdfFieldData[c]) :
                            j \notin Unmapped(c) =>
                                InSeq(rasterCalls[c], pdfFieldData[c][j].name)
                      /\ \A key \in {"flatten", "photo", "signature", "save"} : Did(c, key)
                /\ pc[c] = "done" =>
                      Len(result[c][1].bytes.page1) <=
                          Len(rasterCalls[c]) + Cardinality(DOMAIN images[c])

\* C4 witness: a finished call with an unmapped field between two drawn
\* fields, a drawn photo and a drawn signature.
C4_Witness ==
    /\ pc[1] = "done"
    /\ Was(1, "text_unmapped", "nocoords")
    /\ Was(1, "text_3zwog", "ok")
    /\ Was(1, "text_name_en", "ok")
    /\ Was(1, "photo", "ok")
    /\ Was(1, "signature", "ok")

\* formValues without its empty-string entries.
StripEmpty(fv) == [id \in {k \in DOMAIN fv : fv[k] # <<>>} |-> fv[id]]

\* C5: an empty-string value is treated like a missing value: the fields the
\* call goes on to draw for formValues are those it draws for formValues
\* with the empty-string entries removed, and the rasterizer is never
\* invoked, nor anything drawn, for a field whose value is empty or missing.
C5_EmptyIsAbsent ==
    \A c \in DOMAIN pc :
        LoadedOk(c) =>
            /\ pdfFieldData[c] = BuildPdfFieldData(StripEmpty(formValues[c]))
            /\ \A i \in 1..Len(FORM_FIELDS) :
                  (FORM_FIELDS[i].id \notin DOMAIN formValues[c]
                     \/ formValues[c][FORM_FIELDS[i].id] = <<>>) =>
                      /\ ~InSeq(rasterCalls[c], FORM_FIELDS[i].pdfFieldId)
                      /\ ~Did(c, FORM_FIELDS[i].pdfFieldId)
            /\ Cardinality({k \in 1..Len(trace[c]) : trace[c][k] = "DrawText"})
                  <= Cardinality(DOMAIN StripEmpty(formValues[c]))

\* C5 witness: a finished call whose formValues hold an empty string for one
\* drawable field and a text for another, which was drawn.
C5_Witness ==
    /\ pc[1] = "done"
    /\ "name_bn" \in DOMAIN formValues[1] /\ formValues[1]["name_bn"] = <<>>
    /\ "name_en" \in DOMAIN formValues[1] /\ formValues[1]["name_en"] = <<"a">>
    /\ Was(1, "text_name_en", "ok")
    /\ Len(result[1][1].bytes.page1) = 1

\* C6 as stated: a photo or signature goes to embedPng exactly when the
\* media type of its data URL is image/png and to embedJpg exactly when it
\* is image/jpeg.
C6_EmbedPathMatchesMime ==
    \A c \in DOMAIN pc :
        \A k \in 1..Len(embedCalls[c]) :
            LET e == embedCalls[c][k] IN
            /\ e.path = "png" <=> MimeOf(e.dataUrl) = Chars_image_png
            /\ e.path = "jpg" <=> MimeOf(e.dataUrl) = Chars_image_jpeg

\* What a step recorded as `what` leaves in the document.
Effect(what) == IF what \in {"ok", "draw_throw"} THEN what ELSE "embed_throw"

RECURSIVE AloneFields(_, _, _, _)
AloneFields(doc, entries, k, oc) ==
    IF k > Len(entries) THEN doc
    ELSE LET name == entries[k].name IN
         AloneFields(
            IF name \in DOMAIN FIELD_COORDS
            THEN Drawn(doc, Effect(oc[name]), PngMagic \o Glyphs(entries[k].value),
                       FIELD_COORDS[name].x, FIELD_COORDS[name].y,
                       FIELD_COORDS[name].w, FIELD_COORDS[name].h)
            ELSE doc,
            entries, k + 1, oc)

AloneAsset(doc, im, asset, oc) ==
    IF Supplied(im, asset) /\ oc[asset] \in {"ok", "draw_throw"}
    THEN Drawn(doc, oc[asset], dataUrlToUint8Array(im[asset]),
               RectOf(asset).x, RectOf(asset).y, RectOf(asset).width, RectOf(asset).height)
    ELSE doc

\* The bytes a call with these arguments returns when it runs alone and its
\* steps end as oc records: the template plus its own fields, photo and
\* signature, in that order.
AloneBytes(fv, im, oc) ==
    LET d1 == AloneFields(FreshDoc, BuildPdfFieldData(fv), 1, oc)
        d2 == [d1 EXCEPT !.flattened = (oc["flatten"] = "ok")]
        d3 == AloneAsset(d2, im, "photo", oc)
        d4 == AloneAsset(d3, im, "signature", oc)
    IN [images |-> d4.images, page1 |-> d4.draws, flattened |-> d4.flattened]

\* C10: of two calls whose awaits interleave in any order, each returns the
\* bytes it returns when run alone with the same arguments: no field, photo
\* or signature of the other call is in its output, and until it has saved
\* its document holds only what it embedded and drew itself.
C10_CallsAreIsolated ==
    \A c \in DOMAIN pc :
        /\ pc[c] = "done" =>
              result[c][1].bytes = AloneBytes(formValues[c], images[c], outcome[c])
        /\ pc[c] \in {"fields", "fieldAwait", "flatten"} =>
              /\ docs[DocOf(c)].loaded
              /\ Len(docs[DocOf(c)].draws) =
                    Cardinality({k \in 1..Len(trace[c]) : trace[c][k] = "DrawText"})

\* C10 witness: two finished calls with different arguments and different
\* outputs, the second of which loaded its template while the first was
\* suspended in an embed.
C10_Witness ==
    /\ pc[1] = "done" /\ pc[2] = "done"
    /\ formValues[1] # formValues[2]
    /\ images[1] # images[2]
    /\ loadedWhile[2]
    /\ result[1][1].bytes # result[2][1].bytes
    /\ result[1][1].bytes.page1 # <<>> /\ result[2][1].bytes.page1 # <<>>

----------------------------------------------------------------------------
(* Properties of validateImage *)

\* The hard conditions of a file under a profile, from the published limits.
MinWidthOf(type) == IF type = "photo" THEN 150 ELSE 50
MinHeightOf(type) == IF type = "photo" THEN 180 ELSE 20
MaxBytesOf(type) == IF type = "photo" THEN 5242880 ELSE 2097152

BadType(file) == file.type \notin {"image/jpeg", "image/png", "image/jpg"}
Oversize(file, type) == file.size > MaxBytesOf(type)
Undersized(file, type) ==
    file.decodes /\ (file.width < MinWidthOf(type) \/ file.height < MinHeightOf(type))
HardCondition(file, type) ==
    BadType(file) \/ Oversize(file, type) \/ Undersized(file, type) \/ ~file.decodes

\* C7: the promise of validateImage always settles by resolving, and when a
\* hard condition holds (type not accepted, size over maxSizeBytes whatever
\* the dimensions and whether or not the image decodes, width or height
\* under the minimum, image not decodable) the result has valid = false and
\* a non-empty errors list; a 100x100 image is invalid as a photo and, with
\* no other hard condition, valid as a signature.
C7_HardConditionsInvalidate ==
    /\ vpc = "decoding" => ENABLED NextValidate
    /\ vpc = "resolved" =>
          LET file == vfile[1]
              r == vresult[1]
          IN /\ HardCondition(file, vtype) => (~r.valid /\ r.errors # <<>>)
             /\ Oversize(file, vtype) => InSeq(r.errors, "size")
             /\ BadType(file) => InSeq(r.errors, "type")
             /\ Undersized(file, vtype) => InSeq(r.errors, "small")
             /\ ~file.decodes => InSeq(r.errors, "decode")
             /\ (file.decodes /\ file.width = 100 /\ file.height = 100) =>
                   IF vtype = "photo" THEN ~r.valid
                   ELSE r.valid <=> (~BadType(file) /\ ~Oversize(file, vtype))

\* C7 witness: a 6 MB JPEG of sufficient dimensions found invalid as a photo
\* for its size alone.
C7_Witness ==
    /\ vpc = "resolved"
    /\ vtype = "photo"
    /\ vfile[1].type = "image/jpeg" /\ vfile[1].size = 6 * MB
    /\ vfile[1].decodes /\ vfile[1].width = 150 /\ vfile[1].height = 180
    /\ ~vresult[1].valid
    /\ vresult[1].errors = <<"size">>

\* The warning conditions, from the published limits.
OverMax(file, type) ==
    file.width > 2000 \/ file.height > (IF type = "photo" THEN 2400 ELSE 1000)
RatioOutside(file, type) ==
    IF type = "photo"
    THEN 5 * file.width < 3 * file.height \/ file.width > file.height
    ELSE 2 * file.width < file.height \/ file.width > 8 * file.height

\* C8: when the image decodes and no hard condition holds, the result has
\* valid = true and no errors, also when the width or height is over the
\* maximum or the aspect ratio is outside the profile's range; each of these
\* two conditions adds one entry to warnings and none to errors.
C8_WarningsDoNotInvalidate ==
    (vpc = "resolved" /\ ~HardCondition(vfile[1], vtype)) =>
        LET file == vfile[1]
            r == vresult[1]
        IN /\ r.valid
           /\ r.errors = <<>>
           /\ r.warnings = SeqIf(OverMax(file, vtype), "large")
                           \o SeqIf(RatioOutside(file, vtype), "aspect")

\* C8 witness: a 540x180 JPEG (aspect ratio 3.0) is valid as a photo with
\* an aspect-ratio warning.
C8_Witness ==
    /\ vpc = "resolved"
    /\ vtype = "photo"
    /\ vfile[1].width = 540 /\ vfile[1].height = 180
    /\ vresult[1].valid
    /\ vresult[1].warnings = <<"aspect">>

\* C9: when the image cannot be decoded the promise resolves with valid =
\* false, with errors holding the type and size errors already found
\* followed by the decode error, and without dimensions; the promise never
\* rejects, and dimensions are present whenever the image decoded.
C9_DecodeFailureResolves ==
    /\ vpc \in {"idle", "decoding", "resolved"}
    /\ vpc = "resolved" =>
          LET file == vfile[1]
              r == vresult[1]
          IN IF file.decodes
             THEN r.dimensions = <<[width |-> file.width, height |-> file.height]>>
             ELSE /\ ~r.valid
                  /\ r.errors = SeqIf(BadType(file), "type")
                                \o SeqIf(Oversize(file, vtype), "size")
                                \o <<"decode">>
                  /\ r.dimensions = <<>>

\* C9 witness: an undecodable file of a wrong type and over the size limit
\* resolved with all three errors.
C9_Witness ==
    /\ vpc = "resolved"
    /\ ~vfile[1].decodes
    /\ vresult[1].errors = <<"type", "size", "decode">>
    /\ ~vresult[1].valid

----------------------------------------------------------------------------
(* The rasterizer without a 2D context *)

\* The fields of a call whose renderTextToImage returned "" (no 2D context).
Unavailable(c) ==
    {k \in 1..Len(pdfFieldData[c]) : Was(c, pdfFieldData[c][k].name, "unavailable")}

\* What holds of such a field apart from logging: the rasterizer returned
\* the empty string instead of throwing, nothing was embedded or drawn for
\* the field, and the call went on to the later fields and steps.
SkippedAndContinued(c, k) ==
    LET name == pdfFieldData[c][k].name
        r == FIELD_COORDS[name]
    IN /\ renderTextToImage(pdfFieldData[c][k].value, "unavailable") = <<>>
       /\ InSeq(rasterCalls[c], name)
       /\ DrawsAt(docs[DocOf(c)].draws, r.x, r.y, r.w, r.h) = {}
       /\ pc[c] = "rejected" => result[c][1].at = "save"
       /\ Terminal(c) =>
             /\ \A j \in 1..Len(pdfFieldData[c]) : Did(c, pdfFieldData[c][j].name)
             /\ \A key \in {"flatten", "photo", "signature", "save"} : Did(c, key)

\* C11 as stated: when the rasterizer has no 2D context it returns an
\* "unavailable" result instead of throwing, and fillPdfForm skips the field
\* (no embed, no draw), logs a warning for it and continues with the
\* remaining fields and steps.
C11_UnavailableSkippedAndLogged ==
    \A c \in DOMAIN pc :
        \A k \in Unavailable(c) :
            /\ SkippedAndContinued(c, k)
            /\ \E w \in 1..Len(warned[c]) :
                  /\ warned[c][w].level = "warn"
                  /\ warned[c][w].about = pdfFieldData[c][k].name

\* The part of C11 that the code meets: skipped without embed or draw, and
\* the call continues.
UnavailableSkipped ==
    \A c \in DOMAIN pc : \A k \in Unavailable(c) : SkippedAndContinued(c, k)

----------------------------------------------------------------------------
(* Properties of the localStorage helpers *)

\* Whether a loaded image is the one passed to the save: present with the
\* same data URL, or absent when the save had none.
SameImage(saved, got, asset) ==
    IF Supplied(saved, asset)
    THEN asset \in DOMAIN got /\ got[asset] = saved[asset]
    ELSE asset \notin DOMAIN got

\* C12 as stated: after any saves and clears, every write succeeding,
\* loadFormFromLocalStorage returns the formData and the images (photo and
\* signature, each present or absent) of the most recent save, or an empty
\* formData and no images when the most recent call was a clear.
C12_LoadReturnsLastSave ==
    (loaded # <<>> /\ lastOp # "none") =>
        IF lastOp = "save"
        THEN /\ loaded[1].formData = lastSaved[1].formData
             /\ SameImage(lastSaved[1].images, loaded[1].images, "photo")
             /\ SameImage(lastSaved[1].images, loaded[1].images, "signature")
        ELSE /\ DOMAIN loaded[1].formData = {}
             /\ DOMAIN loaded[1].images = {}

\* The part of C12 that the code meets: the formData of the last save, the
\* images that save supplied, and nothing after a clear.
LoadReturnsWhatLastSaveWrote ==
    (loaded # <<>> /\ lastOp # "none") =>
        IF lastOp = "save"
        THEN /\ loaded[1].formData = lastSaved[1].formData
             /\ \A asset \in {"photo", "signature"} :
                   Supplied(lastSaved[1].images, asset) =>
                       SameImage(lastSaved[1].images, loaded[1].images, asset)
        ELSE /\ DOMAIN loaded[1].formData = {}
             /\ DOMAIN loaded[1].images = {}

----------------------------------------------------------------------------
(* Object URLs of validateImage *)

\* The positions of an event kind in the log of validateImage.
EventsOf(kind) == {i \in 1..Len(vurls.log) : vurls.log[i].ev = kind}

\* C13: a call of validateImage creates exactly one object URL; on both
\* decode outcomes that URL is revoked exactly once, before the promise
\* resolves; the promise resolves at most once, and its result carries
\* dimensions exactly when the image decoded.
C13_UrlRevokedOnceBeforeResolve ==
    /\ Cardinality(EventsOf("resolve")) <= 1
    /\ vpc = "idle" => vurls.log = <<>>
    /\ vpc = "decoding" =>
          /\ Cardinality(EventsOf("create")) = 1
          /\ EventsOf("revoke") = {} /\ EventsOf("resolve") = {}
          /\ vresult = <<>>
    /\ vpc = "resolved" =>
          /\ Cardinality(EventsOf("create")) = 1
          /\ Cardinality(EventsOf("revoke")) = 1
          /\ Cardinality(EventsOf("resolve")) = 1
          /\ vurls.created = 1 /\ vurls.revoked = 1
          /\ \A i \in EventsOf("create"), j \in EventsOf("revoke"), k \in EventsOf("resolve") :
                /\ i < j /\ j < k
                /\ vurls.log[j].url = vurls.log[i].url
          /\ Len(vresult) = 1
          /\ vresult[1].dimensions # <<>> <=> vfile[1].decodes
          /\ ~ENABLED OnLoad /\ ~ENABLED OnError

\* C13 witness: a call whose image did not decode has created, revoked and
\* resolved, in that order, and its result has no dimensions.
C13_Witness ==
    /\ vpc = "resolved"
    /\ ~vfile[1].decodes
    /\ vurls.log = <<[ev |-> "create", url |-> 1], [ev |-> "revoke", url |-> 1],
                     [ev |-> "resolve", url |-> 1]>>
    /\ vresult[1].dimensions = <<>>

====
